---------------------------- MODULE Spec2Model ----------------------------
(***************************************************************************)
(* Wind Energy Analyzer (src/app.py): a Streamlit script that is re-run    *)
(* from top to bottom whenever one of its sidebar widgets changes.  The    *)
(* state is the widgets' values and the values the last run computed.      *)
(*                                                                         *)
(* Python floats are modelled as fixed-point numbers: the integer n stands *)
(* for the real n / ONE.  Products and quotients are truncated to that     *)
(* resolution, and are computed digit by digit so that no intermediate     *)
(* value leaves the 32-bit integers of the model checker.                  *)
(***************************************************************************)
EXTENDS Integers, Sequences, FiniteSets, TLC

\* Resolution of the fixed-point reals: 1.0 is ONE.
ONE == 100000

Abs(x) == IF x < 0 THEN -x ELSE x
Sgn(x) == IF x < 0 THEN -1 ELSE 1

\* <<q, r>> with a * b = q * d + r and 0 <= r < d, for 0 <= a < d, b >= 0,
\* taking b one base-B digit at a time (2 * B * d must fit 31 bits).
RECURSIVE MulDivQR(_, _, _, _)
MulDivQR(a, b, d, B) ==
    IF b = 0 THEN <<0, 0>>
    ELSE LET p == MulDivQR(a, b \div B, d, B)
             t == B * p[2] + (b % B) * a
         IN  <<B * p[1] + (t \div d), t % d>>

\* floor(a * b / d) for a, b >= 0 and d > 0.
MulDiv(a, b, d) ==
    LET B == IF d <= 1000000 THEN 1000 ELSE IF d <= 100000000 THEN 10 ELSE 2
    IN  (a \div d) * b + MulDivQR(a % d, b, d, B)[1]

\* float * float and float / float (b # 0), truncated toward zero.
Mul(a, b) == Sgn(a) * Sgn(b) * MulDiv(Abs(a), Abs(b), ONE)
Div(a, b) == Sgn(a) * Sgn(b) * MulDiv(Abs(a), ONE, Abs(b))

\* math.pi and ln 2 at the model's resolution.
PI == 314159
LN2 == 69315

\* math.sqrt: Newton's iteration from s, until it stops moving.
RECURSIVE SqrtIter(_, _, _)
SqrtIter(x, s, n) ==
    LET t == (s + Div(x, s)) \div 2
    IN  IF n = 0 \/ t = s THEN t ELSE SqrtIter(x, t, n - 1)

Sqrt(x) == IF x = 0 THEN 0 ELSE SqrtIter(x, ONE, 40)

\* sum over n >= m of r^n / n!, given term = r^(m-1) / (m-1)!.
RECURSIVE ExpTerms(_, _, _)
ExpTerms(r, term, n) ==
    IF term = 0 THEN 0 ELSE term + ExpTerms(r, Mul(term, r) \div n, n + 1)

RECURSIVE Pow2(_)
Pow2(n) == IF n = 0 THEN 1 ELSE 2 * Pow2(n - 1)

\* np.exp: z = n ln 2 + r, exp z = 2^n exp r, exp r by its Taylor series.
Exp(z) ==
    LET n == Abs(z) \div LN2
        r == Abs(z) % LN2
        e == ExpTerms(r, ONE, 1)
    IN  IF z >= 0 THEN e * Pow2(n)
        ELSE IF n > 30 THEN 0 ELSE Div(ONE, e) \div Pow2(n)

\* 2 artanh u = 2 (u + u^3/3 + u^5/5 + ...), given pw = u^n.
RECURSIVE AtanhTerms(_, _, _)
AtanhTerms(u2, pw, n) ==
    IF pw = 0 THEN 0 ELSE (pw \div n) + AtanhTerms(u2, Mul(pw, u2), n + 2)

\* natural logarithm of x >= 1.0: halve x into [1, 2), then the series.
RECURSIVE LnGe1(_)
LnGe1(x) ==
    IF x >= 2 * ONE THEN LN2 + LnGe1(x \div 2)
    ELSE LET u == Div(x - ONE, x + ONE)
         IN  2 * AtanhTerms(Mul(u, u), u, 1)

Ln(x) == IF x >= ONE THEN LnGe1(x) ELSE -LnGe1(Div(ONE, x))

RECURSIVE IntPow(_, _)
IntPow(x, n) == IF n = 0 THEN ONE ELSE Mul(x, IntPow(x, n - 1))

\* numpy's x ** y for y >= 0: exact products for a whole exponent,
\* exp(y ln x) for a positive base, 0 for a zero base.
Pow(x, y) ==
    IF y % ONE = 0 THEN IntPow(x, y \div ONE)
    ELSE IF x = 0 THEN 0
    ELSE Exp(Mul(y, Ln(x)))

(***************************************************************************)
(* Program data.                                                           *)
(***************************************************************************)
\* A float literal with five decimals of fraction: Real(3, 60000) is 3.6.
Real(whole, frac) == whole * ONE + frac

WIND_LOCATIONS ==
    "Kolkata, India" :>
        [avg_wind_ms |-> Real(3, 60000), weibull_k |-> Real(1, 70000),
         weibull_c |-> Real(4, 50000)] @@
    "Chennai, India" :>
        [avg_wind_ms |-> Real(5, 50000), weibull_k |-> Real(2, 0),
         weibull_c |-> Real(6, 20000)] @@
    "Hamburg, Germany" :>
        [avg_wind_ms |-> Real(6, 80000), weibull_k |-> Real(2, 30000),
         weibull_c |-> Real(8, 0)] @@
    "Schleswig-Holstein (coastal Germany)" :>
        [avg_wind_ms |-> Real(8, 20000), weibull_k |-> Real(2, 0),
         weibull_c |-> Real(9, 0)] @@
    "Bavaria (South Germany)" :>
        [avg_wind_ms |-> Real(4, 20000), weibull_k |-> Real(1, 80000),
         weibull_c |-> Real(5, 0)]

Locations == DOMAIN WIND_LOCATIONS

\* The dict's items in insertion order: keys (m/s) and values (kW).
V90_POWER_CURVE ==
    [ keys   |-> [j \in 1..21 |-> (j - 1) * ONE],
      values |-> [j \in 1..21 |->
                    ONE * << 0, 0, 0, 50, 120, 250, 480, 750, 1100, 1500, 1800,
                             2000, 2000, 2000, 2000, 2000, 2000, 2000, 2000,
                             2000, 2000 >>[j]] ]

\* A numpy array (or Python list) of n floats: f's values at 1..n, each
\* computed once, when the array is built.
RECURSIVE ArrayRange(_, _, _)
ArrayRange(f, lo, hi) ==
    IF lo > hi THEN <<>>
    ELSE IF lo = hi THEN <<f[lo]>>
    ELSE LET mid == (lo + hi) \div 2
         IN  ArrayRange(f, lo, mid) \o ArrayRange(f, mid + 1, hi)
Array(f, n) == ArrayRange(f, 1, n)

\* max(...) of a non-empty sequence of floats.
SeqMax(s) == CHOOSE m \in {s[j] : j \in DOMAIN s} : \A j \in DOMAIN s : s[j] <= m

\* Mutant of Interp: the value of the table point at or below x, with no
\* slope term (a step curve).
InterpStep(x, xp, fp) ==
    LET n == Len(xp)
    IN  IF x > xp[n] THEN fp[n]
        ELSE IF x < xp[1] THEN fp[1]
        ELSE fp[CHOOSE i \in 1..n : xp[i] <= x /\ (i = n \/ x < xp[i + 1])]

\* Mutant of Interp: the slope is applied from the interval's right end.
InterpRightAnchor(x, xp, fp) ==
    LET n == Len(xp)
    IN  IF x > xp[n] THEN fp[n]
        ELSE IF x < xp[1] THEN fp[1]
        ELSE LET j == CHOOSE i \in 1..n :
                        /\ xp[i] <= x
                        /\ (i = n \/ x < xp[i + 1])
             IN  IF j = n \/ xp[j] = x THEN fp[j]
                 ELSE LET slope == Div(fp[j + 1] - fp[j], xp[j + 1] - xp[j])
                      IN  Mul(slope, x - xp[j + 1]) + fp[j]

\* np.interp(x, xp, fp): fp[1] left of the table, fp[n] right of it, the
\* table value at a table point, else slope * (x - xp[j]) + fp[j] on the
\* interval [xp[j], xp[j+1]) that holds x.
Interp(x, xp, fp) ==
    LET n == Len(xp)
    IN  IF x > xp[n] THEN fp[n]
        ELSE IF x < xp[1] THEN fp[1]
        ELSE LET j == CHOOSE i \in 1..n :
                        /\ xp[i] <= x
                        /\ (i = n \/ x < xp[i + 1])
             IN  IF j = n \/ xp[j] = x THEN fp[j]
                 ELSE LET slope == Div(fp[j + 1] - fp[j], xp[j + 1] - xp[j])
                      IN  Mul(slope, x - xp[j]) + fp[j]

real_power_curve(v) == Interp(v, V90_POWER_CURVE.keys, V90_POWER_CURVE.values)

\* np.arange(0.0, 30.1, 0.5): 61 speeds, 0.0 to 30.0.
GridLen == 61
v_values == Array([i \in 1..GridLen |-> (i - 1) * (ONE \div 2)], GridLen)

base_rated == SeqMax(V90_POWER_CURVE.values)

\* Mutant of ScaleFactor: the curve is never rescaled.
ScaleFactorOne(rated) == ONE

ScaleFactor(rated) == IF base_rated > 0 THEN Div(rated, base_rated) ELSE ONE

\* Mutant of PowerValues: the scale factor is left out of the product.
PowerValuesUnscaled(rated) ==
    Array([i \in 1..GridLen |-> real_power_curve(v_values[i])], GridLen)

PowerValues(rated) ==
    LET scale_factor == ScaleFactor(rated)
    IN  Array([i \in 1..GridLen |->
                  Mul(real_power_curve(v_values[i]), scale_factor)], GridLen)

\* The Weibull parameters the run uses.
WeibullK(loc, use_w) == IF use_w THEN WIND_LOCATIONS[loc].weibull_k ELSE 2 * ONE
WeibullC(loc, use_w, avg) ==
    IF use_w THEN WIND_LOCATIONS[loc].weibull_c
    ELSE Mul(avg, Sqrt(Div(2 * ONE, PI)))

\* weibull_pdf at one speed v, for shape k_ and scale c_ # 0.
WeibullSample(v, k_, c_) ==
    Mul(Mul(Div(k_, c_), Pow(Div(v, c_), k_ - ONE)), Exp(-Pow(Div(v, c_), k_)))

weibull_pdf(v, k_, c_) ==
    Array([i \in DOMAIN v |-> WeibullSample(v[i], k_, c_)], Len(v))

\* np.sum of a vector (fixed-point addition is exact, so the order of the
\* additions does not matter).
RECURSIVE SumRange(_, _, _)
SumRange(s, lo, hi) ==
    IF lo > hi THEN 0
    ELSE IF lo = hi THEN s[lo]
    ELSE LET mid == (lo + hi) \div 2
         IN  SumRange(s, lo, mid) + SumRange(s, mid + 1, hi)
Sum(s) == SumRange(s, 1, Len(s))

dv == v_values[2] - v_values[1]

\* Mutants of Normalization: the step left out, and the step applied twice.
NormalizationNoStep(pdf) == Sum(pdf)
NormalizationStepTwice(pdf) ==
    Sum(Array([i \in DOMAIN pdf |-> Mul(Mul(pdf[i], dv), dv)], Len(pdf)))

Normalization(pdf) == Sum(Array([i \in DOMAIN pdf |-> Mul(pdf[i], dv)], Len(pdf)))

\* pdf_values after lines 175-176, given the sum of line 174.
Normalize(pdf, norm) ==
    IF norm > 0
    THEN Array([i \in DOMAIN pdf |-> Div(pdf[i], norm)], Len(pdf))
    ELSE pdf

\* Mutant of ExpectedPower: the step left out of the sum.
ExpectedPowerNoStep(power, pdf) ==
    Sum(Array([i \in DOMAIN power |-> Mul(power[i], pdf[i])], Len(power)))

ExpectedPower(power, pdf) ==
    Sum(Array([i \in DOMAIN power |-> Mul(Mul(power[i], pdf[i]), dv)],
              Len(power)))

HoursPerYear == 8760
\* expected_power_kw * 8760.0 is too wide for one fixed-point number: kept
\* as whole kWh and the fraction of a kWh (in 1/ONE), with no rounding.
AepKwh(expected) ==
    LET f == (expected % ONE) * HoursPerYear
    IN  [whole |-> (expected \div ONE) * HoursPerYear + (f \div ONE),
         frac  |-> f % ONE]

\* Mutant of CapacityFactor: divides by the table's rating, not the user's.
CapacityFactorOfBase(expected, rated) ==
    IF rated > 0 THEN Div(expected, base_rated) ELSE 0

CapacityFactor(expected, rated) == IF rated > 0 THEN Div(expected, rated) ELSE 0

Contribution(power, pdf) ==
    Array([i \in DOMAIN power |-> Mul(power[i], pdf[i])], Len(power))

(***************************************************************************)
(* The script's state: the sidebar widgets and what the last run computed. *)
(***************************************************************************)
VARIABLES location, avg_wind_speed, rated_power_kw, cut_in, cut_out,
          use_weibull, power_values, k, c, normalization, pdf_values,
          expected_power_kw, aep_kwh, capacity_factor, contribution_kw,
          call
\* call is the last direct evaluation of one of the script's functions or
\* expressions on arguments of the caller's choosing (SpecFn below); the
\* script itself never changes it.

inputs  == <<location, avg_wind_speed, rated_power_kw, cut_in, cut_out,
             use_weibull>>
outputs == <<power_values, k, c, normalization, pdf_values,
             expected_power_kw, aep_kwh, capacity_factor, contribution_kw>>
vars    == <<inputs, outputs, call>>

NoCall == [fn |-> "", args |-> <<>>, ret |-> 0]

\* How many 50 kW steps above the default the rated-power box is tried at.
MaxRatedSteps == 1

RatedChoices ==
    {Real(100, 0), Real(2000, 0), Real(5000, 0)} \cup
    {Real(2000, 0) + j * Real(50, 0) : j \in 1..MaxRatedSteps}
\* The slider's ends; a location's own mean speed is its default.
AvgWindChoices == {Real(2, 0), Real(12, 0)}
CutInChoices   == {Real(3, 0), Real(6, 0)}
CutOutChoices  == {Real(25, 0), Real(15, 0)}

\* The mean speeds tried at a location: the slider's ends and its default.
AvgWindAt(loc) == AvgWindChoices \cup {WIND_LOCATIONS[loc].avg_wind_ms}

\* weibull_pdf(v_values, k, c), computed once for each pair (k, c) the
\* widgets above can produce and looked up afterwards.
PdfCache ==
    { <<p, weibull_pdf(v_values, p[1], p[2])>> :
        p \in { <<WeibullK(loc, uw), WeibullC(loc, uw, avg)>> :
                   loc \in Locations, uw \in BOOLEAN,
                   avg \in UNION {AvgWindAt(l) : l \in Locations} } }

WeibullPdfOnGrid(kk, cc) ==
    IF \E e \in PdfCache : e[1] = <<kk, cc>>
    THEN (CHOOSE e \in PdfCache : e[1] = <<kk, cc>>)[2]
    ELSE weibull_pdf(v_values, kk, cc)

\* One run of the script, lines 152-184, on the widgets' values: each line
\* assigns one variable from the ones assigned before it.  The parameters
\* after uw are the variables assigned (primed in a re-run).
Script(loc, avg, rated, uw, pw, kk, cc, norm, pdf, e, aep, cf, contrib) ==
    /\ pw = PowerValues(rated)
    /\ kk = WeibullK(loc, uw)
    /\ cc = WeibullC(loc, uw, avg)
    /\ \E raw \in {WeibullPdfOnGrid(kk, cc)} :
          /\ norm = Normalization(raw)
          /\ pdf = Normalize(raw, norm)
    /\ e = ExpectedPower(pw, pdf)
    /\ aep = AepKwh(e)
    /\ cf = CapacityFactor(e, rated)
    /\ contrib = Contribution(pw, pdf)

Run(loc, avg, rated, uw) ==
    Script(loc, avg, rated, uw, power_values', k', c', normalization',
           pdf_values', expected_power_kw', aep_kwh', capacity_factor',
           contribution_kw')

\* The first run: every widget at its default (location index 2).
Init ==
    /\ location = "Hamburg, Germany"
    /\ avg_wind_speed = WIND_LOCATIONS[location].avg_wind_ms
    /\ rated_power_kw = Real(2000, 0)
    /\ cut_in = Real(3, 0)
    /\ cut_out = Real(25, 0)
    /\ use_weibull = TRUE
    /\ call = NoCall
    /\ Script(location, avg_wind_speed, rated_power_kw, use_weibull,
              power_values, k, c, normalization, pdf_values,
              expected_power_kw, aep_kwh, capacity_factor, contribution_kw)

\* A new location: the mean-speed slider is keyed by the location, so it is
\* a new widget at that location's default.
SelectLocation ==
    \E loc \in Locations \ {location} :
        /\ location' = loc
        /\ avg_wind_speed' = WIND_LOCATIONS[loc].avg_wind_ms
        /\ UNCHANGED <<rated_power_kw, cut_in, cut_out, use_weibull, call>>
        /\ Run(loc, WIND_LOCATIONS[loc].avg_wind_ms, rated_power_kw, use_weibull)

SetAvgWindSpeed ==
    \E avg \in AvgWindAt(location) \ {avg_wind_speed} :
        /\ avg_wind_speed' = avg
        /\ UNCHANGED <<location, rated_power_kw, cut_in, cut_out, use_weibull, call>>
        /\ Run(location, avg, rated_power_kw, use_weibull)

SetRatedPower ==
    \E rated \in RatedChoices \ {rated_power_kw} :
        /\ rated_power_kw' = rated
        /\ UNCHANGED <<location, avg_wind_speed, cut_in, cut_out, use_weibull, call>>
        /\ Run(location, avg_wind_speed, rated, use_weibull)

SetCutIn ==
    \E ci \in CutInChoices \ {cut_in} :
        /\ cut_in' = ci
        /\ UNCHANGED <<location, avg_wind_speed, rated_power_kw, cut_out,
                       use_weibull, call>>
        /\ Run(location, avg_wind_speed, rated_power_kw, use_weibull)

SetCutOut ==
    \E co \in CutOutChoices \ {cut_out} :
        /\ cut_out' = co
        /\ UNCHANGED <<location, avg_wind_speed, rated_power_kw, cut_in,
                       use_weibull, call>>
        /\ Run(location, avg_wind_speed, rated_power_kw, use_weibull)

ToggleUseWeibull ==
    /\ use_weibull' = ~use_weibull
    /\ UNCHANGED <<location, avg_wind_speed, rated_power_kw, cut_in, cut_out, call>>
    /\ Run(location, avg_wind_speed, rated_power_kw, ~use_weibull)

Next ==
    \/ SelectLocation
    \/ SetAvgWindSpeed
    \/ SetRatedPower
    \/ SetCutIn
    \/ SetCutOut
    \/ ToggleUseWeibull

Spec == Init /\ [][Next]_vars

(***************************************************************************)
(* Direct calls.  real_power_curve, weibull_pdf and the capacity-factor    *)
(* expression of line 181 are pure: SpecFn evaluates them on arguments the *)
(* widgets cannot produce (speeds off the grid, a rated power <= 0, a      *)
(* scale c <= 0), as a caller that imports them or replaces the            *)
(* WIND_LOCATIONS table can.                                               *)
(***************************************************************************)
\* Probe speeds run from -2 m/s to MaxProbeSpeed m/s in quarter steps.
MaxProbeSpeed == 32
ProbeSpeeds == {j * (ONE \div 4) : j \in -8..(4 * MaxProbeSpeed)}

ProbeExpected == {0, 1, Real(43, 21000), Real(876, 22947), Real(2000, 0),
                  Real(4999, 99999)}
ProbeRated    == {-Real(100, 0), 0, Real(100, 0), Real(150, 0), Real(2000, 0),
                  Real(5000, 0)}
\* (k, c) pairs: the table's own, and pairs with c <= 0 (with a whole k
\* when c < 0: a negative base to a fractional power is not modelled).
ProbeParams ==
    {<<WIND_LOCATIONS[loc].weibull_k, WIND_LOCATIONS[loc].weibull_c>> :
        loc \in Locations} \cup
    {<<2 * ONE, 0>>, <<Real(1, 70000), 0>>, <<0, 0>>, <<-ONE, 0>>,
     <<2 * ONE, -Real(4, 50000)>>, <<2 * ONE, -Real(9, 0)>>}

\* What a call of weibull_pdf(v, k_, c_) does: Python's k / c raises
\* ZeroDivisionError for c = 0; nothing else is checked.
WeibullPdfCall(v, k_, c_) ==
    IF c_ = 0 THEN [raised |-> "ZeroDivisionError", value |-> <<>>]
    ELSE [raised |-> "", value |-> weibull_pdf(v, k_, c_)]

CallRealPowerCurve ==
    \E v \in ProbeSpeeds :
        /\ call' = [fn |-> "real_power_curve", args |-> <<v>>,
                    ret |-> real_power_curve(v)]
        /\ UNCHANGED <<inputs, outputs>>

CallCapacityFactor ==
    \E e \in ProbeExpected, rated \in ProbeRated :
        /\ call' = [fn |-> "capacity_factor", args |-> <<e, rated>>,
                    ret |-> CapacityFactor(e, rated)]
        /\ UNCHANGED <<inputs, outputs>>

CallWeibullPdf ==
    \E p \in ProbeParams :
        /\ call' = [fn |-> "weibull_pdf", args |-> p,
                    ret |-> WeibullPdfCall(v_values, p[1], p[2])]
        /\ UNCHANGED <<inputs, outputs>>

NextFn ==
    \/ CallRealPowerCurve
    \/ CallCapacityFactor
    \/ CallWeibullPdf

SpecFn == Init /\ [][NextFn]_vars

(***************************************************************************)
(* Properties.                                                             *)
(***************************************************************************)
GridIdx == 1..GridLen

C2_Interpolation ==
    call.fn = "real_power_curve" =>
        LET v  == call.args[1]
            xp == V90_POWER_CURVE.keys
            fp == V90_POWER_CURVE.values
            n  == Len(xp)
        IN  /\ v < xp[1] => call.ret = fp[1]
            /\ v > xp[n] => call.ret = fp[n]
            /\ \A j \in 1..(n - 1) :
                 (xp[j] <= v /\ v <= xp[j + 1]) =>
                    call.ret = fp[j] + MulDiv(fp[j + 1] - fp[j], v - xp[j],
                                              xp[j + 1] - xp[j])

\* 3.25 m/s, a quarter of the way from (3, 50) to (4, 120): 67.5 kW.
C2_Witness ==
    /\ call.fn = "real_power_curve"
    /\ call.args[1] = Real(3, 25000)
    /\ call.ret = Real(67, 50000)

\* C3: every power sample is the interpolated table value times
\* ratedPowerKw / max(P_i); with ratedPowerKw = max(P_i) it is the
\* interpolated value itself.
C3_Rescaled ==
    \A i \in GridIdx :
        /\ power_values[i] =
             MulDiv(real_power_curve(v_values[i]), rated_power_kw,
                    SeqMax(V90_POWER_CURVE.values))
        /\ rated_power_kw = SeqMax(V90_POWER_CURVE.values) =>
             power_values[i] = real_power_curve(v_values[i])

\* Rated 5000 kW: the sample at 11 m/s, 2000 kW in the table, is 5000 kW.
C3_Witness ==
    /\ rated_power_kw = Real(5000, 0)
    /\ power_values[23] = Real(5000, 0)
    /\ power_values[8] = Real(212, 50000)

\* C4: contribution[i] = power[i] * density[i] at every grid index,
\* expectedPowerKw is the sum of contribution[i] * step, and aepKwh is
\* expectedPowerKw * 8760 exactly (aepKwh / 8760 leaves no remainder and
\* is expectedPowerKw).
C4_Yield ==
    /\ \A i \in GridIdx :
         contribution_kw[i] = Mul(power_values[i], pdf_values[i])
    /\ expected_power_kw =
         Sum(Array([i \in GridIdx |-> Mul(contribution_kw[i], ONE \div 2)],
                   GridLen))
    /\ LET q == aep_kwh.whole \div 8760
           r == (aep_kwh.whole % 8760) * ONE + aep_kwh.frac
       IN  /\ r % 8760 = 0
           /\ q * ONE + (r \div 8760) = expected_power_kw

C4_Witness ==
    /\ expected_power_kw > 0
    /\ contribution_kw[20] > 0
    /\ aep_kwh.whole > 0
    /\ aep_kwh.frac > 0

\* C5: the capacity factor is expected / rated (truncated to the model's
\* resolution) for rated > 0, and 0 for rated <= 0.
C5_CapacityFactor ==
    call.fn = "capacity_factor" =>
        LET e     == call.args[1]
            rated == call.args[2]
            rem   == e - call.ret * (rated \div ONE)
        IN  /\ rated > 0 => (0 <= rem /\ rem < rated \div ONE)
            /\ rated <= 0 => call.ret = 0

\* The guarded case: a positive expected power over a rated power of 0.
C5_Witness ==
    /\ call.fn = "capacity_factor"
    /\ call.args[1] > 0
    /\ call.args[2] = 0
    /\ call.ret = 0

\* The distribution a run uses is the same before and after a step.
SameDistribution == k' = k /\ c' = c

C7_Claim ==
    \A i \in GridIdx :
        (v_values[i] < cut_in \/ v_values[i] >= cut_out) => power_values[i] = 0

\* C8: with k <= 0 or c <= 0 the evaluation fails with
\* InvalidDistributionParams and produces no samples.
C8_Claim ==
    (call.fn = "weibull_pdf" /\ (call.args[1] <= 0 \/ call.args[2] <= 0)) =>
        /\ call.ret.raised = "InvalidDistributionParams"
        /\ call.ret.value = <<>>

\* C9: every power sample and density sample, the expected power and the
\* capacity factor are >= 0.
C9_NonNegative ==
    /\ \A i \in GridIdx : power_values[i] >= 0 /\ pdf_values[i] >= 0
    /\ expected_power_kw >= 0
    /\ capacity_factor >= 0

C9_Witness ==
    /\ ~use_weibull
    /\ rated_power_kw = Real(100, 0)
    /\ expected_power_kw > 0
    /\ capacity_factor > 0

\* C10: the expected power never exceeds the rated power, and the capacity
\* factor never exceeds 1.
C10_AtMostRated ==
    /\ expected_power_kw <= rated_power_kw
    /\ capacity_factor <= ONE

\* The windiest setting: more than half the rated power is expected.
C10_Witness ==
    /\ capacity_factor > ONE \div 2
    /\ expected_power_kw > rated_power_kw \div 2
=============================================================================
